---- MODULE Spec2Model ----
(***************************************************************************)
(* Model of the request-bridging engine of claude-proxy (ClaudeProxyBridge *)
(* in bridge.js, with the ClaudeCodeSDK and ClaudeCodeCLI adapters).       *)
(*                                                                         *)
(* Granularity: JavaScript runs a handler without interruption up to its   *)
(* next await, so one action is one run-to-await segment of a call.        *)
(* Time is an abstract clock whose unit is the unit of the cache TTL. A     *)
(* backoff sleep is a matter of milliseconds: it may be over before the    *)
(* clock moves, so the end of a sleep is not tied to the clock, and the    *)
(* delays slept are recorded in the call.                                  *)
(* Calls run in the slots that Init opens; Spec opens one slot, so that    *)
(* its calls follow one another, interleaved with the initialization, the  *)
(* clock, the cache sweep and clearCache.                                  *)
(* Spec is the whole bridge, with upstream streams of at most one chunk;   *)
(* SpecStream is the streaming path alone, with streams of MaxChunks       *)
(* chunks; SpecNormalize is the normalization of requests of both          *)
(* dialects, with numeric fields inside and outside their ranges;          *)
(* SpecConcurrent opens every slot, so that calls run concurrently.        *)
(* SpecTimeout has an upstream that never answers, and the fairness of the *)
(* timers; SpecMetrics keeps the mean of the response times; SpecLost lets  *)
(* the pinned backend go away; SpecClassify has adapters that raise every   *)
(* kind of error.                                                          *)
(* An optional number is a set: {} is undefined, {n} is the number n.      *)
(* An optional string is the string itself or "undefined".                 *)
(***************************************************************************)
EXTENDS Integers, Sequences, FiniteSets, TLC

\* ---------------------------------------------------------------- bounds
\* total number of calls issued to the bridge in one behaviour
MaxRequests == 2
\* last value of the clock
MaxTime == 2
\* events one streaming call's upstream emits in total
MaxChunks == 2

\* ---------------------------------------------------------------- constants
Procs == {1, 2}
Undefined == "undefined"

DefaultModel == "claude-sonnet-4-20250514"
TokenCeiling == 8192
DefaultMaxTokens == 4096
SdkErrorStatus == 500

\* temperatures are in tenths: 3 is 0.3, 10 is 1.0
DefaultTemperature == 3
MaxTemperature == 10

RetryableStatuses == {429, 500, 502, 503, 504}
RetryableErrors == {"ECONNRESET", "ETIMEDOUT", "ENOTFOUND"}

\* error messages of the model that contain the substring 'rate limit'
RateLimitMessages == {"Claude Code CLI failed: rate limit exceeded", "rate limit exceeded"}
\* error messages of the model that contain the substring 'timeout'
TimeoutMessages == {"Claude Code CLI timeout"}

NoAuthMessage == "No authentication method available"
NoStreamMethodMessage == "executeStream is not a function"

\* ---------------------------------------------------------------- inputs
\* the environment the constructor finds: a configured credential, whether
\* the SDK module loads with a callable entry function, whether the CLI
\* module loads, whether the claude command resolves on the path
Envs ==
  { [apiKey |-> TRUE,  sdkLoads |-> FALSE, cliLoads |-> TRUE,  cliResolves |-> TRUE],
    [apiKey |-> FALSE, sdkLoads |-> TRUE,  cliLoads |-> TRUE,  cliResolves |-> TRUE],
    [apiKey |-> FALSE, sdkLoads |-> FALSE, cliLoads |-> TRUE,  cliResolves |-> TRUE],
    [apiKey |-> FALSE, sdkLoads |-> FALSE, cliLoads |-> TRUE,  cliResolves |-> FALSE],
    [apiKey |-> FALSE, sdkLoads |-> FALSE, cliLoads |-> FALSE, cliResolves |-> FALSE] }

RetryAttemptsChoices == {0, 1, 3}
CacheTtlChoices == {1}
RetryDelayChoices == {1}
\* CACHE_MAX_SIZE of the deployment: the server reads CACHE_ENABLED and
\* CACHE_TTL from the environment, and nothing reads this one
CacheMaxSizeChoices == {1}

\* a message of a request; its content is a sequence of pieces of text that
\* stands for their concatenation
Message(role, content) == [role |-> role, content |-> content]

\* request bodies: they differ in the model only, which the second leaves out
Bodies ==
  { [model |-> "m1", messages |-> <<Message("user", <<"hi">>)>>, max_tokens |-> {50},
     temperature |-> {}, system |-> Undefined],
    [model |-> Undefined, messages |-> <<Message("user", <<"hi">>)>>, max_tokens |-> {50},
     temperature |-> {}, system |-> Undefined] }

\* token budgets of a request: none, the default, above the ceiling, zero, negative
MaxTokensChoices == { {}, {DefaultMaxTokens}, {999999}, {0}, {-1} }
\* temperatures of a request, in tenths: none, below the range, above it
TemperatureChoices == { {}, {-5}, {15} }

\* request bodies of the generic dialect that differ in their numeric fields
NumericBodies ==
  { [model |-> "m1", messages |-> <<Message("user", <<"hi">>)>>, max_tokens |-> mt,
     temperature |-> t, system |-> Undefined] : mt \in MaxTokensChoices, t \in TemperatureChoices }

\* request bodies of the GitHub Actions dialect
GhBodies ==
  { [prompt |-> Undefined, direct_prompt |-> "hi", model |-> "m1", max_tokens |-> {999999},
     temperature |-> {15}, system_prompt |-> Undefined, context |-> Undefined, stream |-> st]
    : st \in BOOLEAN }
  \cup
  { [prompt |-> "hi", direct_prompt |-> Undefined, model |-> Undefined, max_tokens |-> {},
     temperature |-> {}, system_prompt |-> "be brief", context |-> "repo", stream |-> st]
    : st \in BOOLEAN }
  \cup
  { [prompt |-> Undefined, direct_prompt |-> Undefined, model |-> Undefined, max_tokens |-> {},
     temperature |-> {}, system_prompt |-> Undefined, context |-> "repo", stream |-> st]
    : st \in BOOLEAN }

Methods == {Undefined, "POST"}

\* what one upstream call does: it answers, it refuses the credential, it
\* fails in a transient way (overload, rate limit), or the command to run is
\* missing
Outcomes == {"ok", "auth", "transient", "missing"}

\* the chunks the upstream stream of the Anthropic API yields
Chunks ==
  { [type |-> "message_start", text |-> ""],
    [type |-> "content_block_delta", text |-> "a"],
    [type |-> "content_block_delta", text |-> "b"],
    [type |-> "content_block_delta", text |-> ""],
    [type |-> "ping", text |-> ""],
    [type |-> "message_stop", text |-> ""] }

VARIABLES
  options,      \* this.options
  env,          \* what initializeAuthMethods finds
  authMethod,   \* this.authMethod ("unset" until it is assigned)
  initPc,       \* position of initializeAuthMethods
  cache,        \* this.cache: key -> [t: expiry, v: response] or NoEntry
  metrics,      \* this.metrics
  now,          \* Date.now()
  slots,        \* the slots that take calls
  chunkLimit,   \* the chunks an upstream stream yields at most, per call
  calls         \* the calls in flight or just finished, one per slot

vars == <<options, env, authMethod, initPc, cache, metrics, now, slots, chunkLimit, calls>>

\* ---------------------------------------------------------------- helpers
Pow2(n) == IF n <= 0 THEN 1 ELSE 2 ^ n

Min(a, b) == IF a < b THEN a ELSE b
Max(a, b) == IF a > b THEN a ELSE b

Opt(s, default) == IF s = {} THEN default ELSE CHOOSE x \in s : TRUE

\* isRetryableError(error)
isRetryableByStatus(error) ==
  error.status \subseteq RetryableStatuses /\ error.status # {}
isRetryableError(error) ==
  \/ error.status \subseteq RetryableStatuses /\ error.status # {}
  \/ error.code \in RetryableErrors
  \/ error.message \in RateLimitMessages
  \/ error.message \in TimeoutMessages

\* generateCacheKey(request): the serialized keyData; the sha256 digest of it
\* is taken to be injective on the requests of the model
generateCacheKeyWithoutModel(request) ==
  [ model |-> DefaultModel,
    messages |-> request.messages,
    max_tokens |-> request.max_tokens,
    temperature |-> request.temperature,
    system |-> request.system ]
generateCacheKey(request) ==
  [ model |-> IF request.model = Undefined THEN DefaultModel ELSE request.model,
    messages |-> request.messages,
    max_tokens |-> request.max_tokens,
    temperature |-> request.temperature,
    system |-> request.system ]

\* transformToClaudeFormat(request)
transformWithoutClamp(request) ==
  [ model |-> IF request.model = Undefined THEN DefaultModel ELSE request.model,
    max_tokens |-> Opt(request.max_tokens, DefaultMaxTokens),
    temperature |-> Opt(request.temperature, DefaultTemperature),
    messages |-> request.messages,
    system |-> request.system,
    method |-> request.method,
    requestId |-> request.requestId ]
transformToClaudeFormat(request) ==
  [ model |-> IF request.model = Undefined THEN DefaultModel ELSE request.model,
    max_tokens |-> Min(Opt(request.max_tokens, DefaultMaxTokens), TokenCeiling),
    temperature |-> Max(0, Min(MaxTemperature, Opt(request.temperature, DefaultTemperature))),
    messages |-> request.messages,
    system |-> request.system,
    method |-> request.method,
    requestId |-> request.requestId ]

\* transformGitHubActionsRequest(ghRequest): the defaults are filled in, the
\* messages are the system prompt, the context and the main prompt, in this
\* order, each if it is given
transformGitHubActionsRequest(ghRequest) ==
  LET mainPrompt == IF ghRequest.direct_prompt # Undefined THEN ghRequest.direct_prompt
                    ELSE ghRequest.prompt
  IN
  [ model |-> IF ghRequest.model = Undefined THEN DefaultModel ELSE ghRequest.model,
    max_tokens |-> {Opt(ghRequest.max_tokens, DefaultMaxTokens)},
    temperature |-> {Opt(ghRequest.temperature, DefaultTemperature)},
    messages |->
      (IF ghRequest.system_prompt # Undefined
         THEN <<Message("system", <<ghRequest.system_prompt>>)>> ELSE <<>>)
      \o (IF ghRequest.context # Undefined
            THEN <<Message("user", <<"Context: ", ghRequest.context>>)>> ELSE <<>>)
      \o (IF mainPrompt # Undefined
            THEN <<Message("user", <<mainPrompt>>)>> ELSE <<>>),
    system |-> Undefined,
    action |-> "chat" ]

\* transformGitHubActionsResponse(claudeResponse)
transformGitHubActionsResponse(claudeResponse) ==
  [ action |-> "response",
    success |-> {TRUE},
    response |-> claudeResponse.content,
    usage |-> claudeResponse.usage,
    model |-> claudeResponse.model,
    metadata |-> [ requestId |-> claudeResponse.requestId,
                   responseTime |-> claudeResponse.responseTime,
                   fromCache |-> claudeResponse.fromCache = {TRUE} ] ]

\* the request bodies the bridge is called with
AllBodies == Bodies \cup NumericBodies \cup { transformGitHubActionsRequest(g) : g \in GhBodies }

\* the cache keys of the requests of Bodies, and of all requests
Keys == { generateCacheKey(b) : b \in Bodies }
AllKeys == { generateCacheKey(b) : b \in AllBodies }

\* the canonical request: what the adapter is given, less the request id
CanonicalOf(creq) ==
  [ model |-> creq.model, max_tokens |-> creq.max_tokens, temperature |-> creq.temperature,
    messages |-> creq.messages, system |-> creq.system ]

\* the error an adapter raises for an upstream outcome. The bridge passes no
\* timeout to anthropic.messages.create: an upstream that does not answer ends
\* in the connection timeout error of the client library, which has no status
\* and no code
ApiError(outcome) ==
  CASE outcome = "auth" -> [status |-> {401}, code |-> Undefined, message |-> "invalid x-api-key"]
    [] outcome = "transient" -> [status |-> {503}, code |-> Undefined, message |-> "Overloaded"]
    [] outcome = "timeout" -> [status |-> {}, code |-> Undefined, message |-> "Request timed out."]
    [] OTHER -> [status |-> {}, code |-> "ECONNRESET", message |-> "Connection error."]

\* ClaudeCodeSDK.execute, catch block: every failure is rethrown with status 500
SdkError(outcome) ==
  [ status |-> {SdkErrorStatus},
    code |-> Undefined,
    message |-> CASE outcome = "auth" -> "Invalid API key"
                  [] outcome = "transient" -> "rate limit exceeded"
                  [] outcome = "timeout" -> "The operation was aborted"
                  [] OTHER -> "Claude Code SDK execution failed" ]

\* ClaudeCodeCLI.execute: not found, a non-zero exit code, or the timer
CliError(outcome) ==
  [ status |-> {},
    code |-> Undefined,
    message |-> CASE outcome = "auth" -> "Claude Code CLI failed: Invalid API key"
                  [] outcome = "transient" -> "Claude Code CLI failed: rate limit exceeded"
                  [] outcome = "timeout" -> "Claude Code CLI timeout"
                  [] OTHER -> "Claude Code CLI not found" ]

\* the errors the API client raises: a response with an error status, a
\* connection that fails with a code, a request that times out
ApiStatusChoices == {400, 401, 429, 500, 502, 503, 504}
ApiCodeChoices == RetryableErrors \cup {"EPIPE"}
ApiErrors ==
  { [status |-> {st}, code |-> Undefined, message |-> "upstream error"] : st \in ApiStatusChoices }
  \cup { [status |-> {}, code |-> cd, message |-> "Connection error."] : cd \in ApiCodeChoices }
  \cup { ApiError("timeout") }

\* the errors a backend can raise
ErrorsOf(adapter) ==
  CASE adapter = "api" -> ApiErrors
    [] adapter = "sdk" -> { SdkError(o) : o \in {"auth", "transient", "timeout", "missing"} }
    [] OTHER -> { CliError(o) : o \in {"auth", "transient", "timeout", "missing"} }

AdapterError(method, outcome) ==
  CASE method = "api" -> ApiError(outcome)
    [] method = "sdk" -> SdkError(outcome)
    [] OTHER -> CliError(outcome)

\* the default branch of the switch in executeWithRetry / executeStreamWithRetry
NoAuthError == [status |-> {}, code |-> Undefined, message |-> NoAuthMessage]

\* calling a method the adapter object does not have raises a TypeError
NoStreamMethodError == [status |-> {}, code |-> Undefined, message |-> NoStreamMethodMessage]

\* the text the upstream generates: no two calls of the bridge get the same
UpstreamText(creq) == <<"answer", creq.requestId>>

\* the response an adapter call resolves to, in API format. Only the SDK
\* adapter sets success and is_error, here from a query that ends in a result
\* message of subtype success; the message of the API and the object built
\* from the CLI output have neither field
AdapterResponse(method, creq) ==
  [ content |-> UpstreamText(creq),
    model |-> CASE method = "sdk" -> "claude-sonnet-4"
                [] OTHER -> creq.model,
    usage |-> TRUE,
    success |-> IF method = "sdk" THEN {TRUE} ELSE {},
    is_error |-> IF method = "sdk" THEN {FALSE} ELSE {},
    requestId |-> IF method = "sdk" THEN {creq.requestId} ELSE {},
    responseTime |-> {},
    fromCache |-> {},
    timestamp |-> {} ]

\* formatResponse(response, metadata): the keys of metadata override
formatResponse(response, metadata) ==
  [ f \in DOMAIN response |->
      IF f = "timestamp" THEN {now}
      ELSE IF f \in DOMAIN metadata THEN metadata[f] ELSE response[f] ]

\* a slot of the cache that holds nothing. Beside the expiry t and the value v
\* that NodeCache keeps, an entry records for the properties: at, when it was
\* stored; src, the body of the request it was stored for; ret, the response
\* returned to the call that stored it; canon, the canonical request of that
\* call
NoEntry == [t |-> {}, v |-> <<>>, at |-> {}, src |-> <<>>, ret |-> <<>>, canon |-> <<>>]
Present(entry) == entry.t # {}

\* NodeCache._check: an entry is live until the clock passes its expiry
LiveIgnoringTtl(entry) == Present(entry)
Live(entry) == Present(entry) /\ \A t \in entry.t : ~(t < now)

\* NodeCache.get deletes the expired entry it finds
CacheAfterGet(key) ==
  IF Present(cache[key]) /\ ~Live(cache[key])
    THEN [cache EXCEPT ![key] = NoEntry] ELSE cache

\* NodeCache.set(key, value, ttl)
CacheSetNothing(c, key, value, ttl) == c
CacheSetIfAbsent(c, key, value, ttl) ==
  IF Present(c[key]) THEN c ELSE [c EXCEPT ![key] = [NoEntry EXCEPT !.t = {now + ttl}, !.v = value]]
CacheSet(c, key, value, ttl) ==
  [c EXCEPT ![key] = [NoEntry EXCEPT !.t = {now + ttl}, !.v = value]]

\* a slot that holds no call. Beside the locals of the call, a call records
\* for the properties: adapter, the adapter its last attempt went to; nCalls,
\* errs, sleeps, the adapter invocations, their errors and the backoffs so far;
\* liveAtStart, staleAtStart, sameCanonAtStart, what the cache held for the
\* request when the call came in; duringSleepOf, the calls that were in a
\* backoff sleep when the call came in, each with the number of its sleep;
\* racing, the non-streaming calls for the same cache key that were under way
\* when the call came in
IdleCall ==
  [ pc |-> "idle", stream |-> FALSE, request |-> <<>>, creq |-> <<>>,
    attempt |-> 0, adapter |-> Undefined, nCalls |-> 0, errs |-> <<>>, sleeps |-> <<>>,
    startTime |-> 0, liveAtStart |-> FALSE, staleAtStart |-> FALSE, sameCanonAtStart |-> FALSE,
    duringSleepOf |-> {}, racing |-> {}, hit |-> NoEntry,
    dHits |-> 0, dMisses |-> 0, dErrors |-> 0, stored |-> NoEntry,
    emitted |-> <<>>, events |-> <<>>, result |-> <<>>, error |-> <<>> ]

\* updateMetrics(response, responseTime): the running mean of the response
\* times, a fraction <<numerator, denominator>>; samples records for the
\* properties the response times that went into it. A specification that is
\* not about the mean leaves it out: {}
updateMetrics(m, responseTime) ==
  IF m.averageResponseTime = {} THEN m
  ELSE LET currentAvg == CHOOSE a \in m.averageResponseTime : TRUE
           requests == m.requests
       IN [m EXCEPT !.averageResponseTime =
                      {<<currentAvg[1] * (requests - 1) + responseTime * currentAvg[2],
                         currentAvg[2] * requests>>},
                    !.samples = Append(@, responseTime)]

\* a call returns what the adapter answered: answered records for the
\* properties how many calls did
Answered(m) == [m EXCEPT !.answered = @ + 1]

\* this.metrics of a new bridge
InitialMetrics(averageResponseTime) ==
  [ requests |-> 0, cacheHits |-> 0, cacheMisses |-> 0, errors |-> 0,
    averageResponseTime |-> averageResponseTime, samples |-> <<>>, answered |-> 0 ]

\* ---------------------------------------------------------------- Init
InitOptions ==
  /\ env \in Envs
  /\ options \in [ cacheEnabled : BOOLEAN, cacheTtl : CacheTtlChoices,
                   retryAttempts : RetryAttemptsChoices, retryDelay : RetryDelayChoices ]
  /\ authMethod = IF env.apiKey THEN "api" ELSE "unset"
  /\ initPc = IF env.apiKey THEN "done" ELSE "importSdk"
  /\ now = 0
  /\ calls = [p \in Procs |-> IdleCall]

InitBridge == InitOptions /\ metrics = InitialMetrics({})

\* the cache is empty; its slots are those of the keys of the requests to come
EmptyCache(keys) == [k \in keys |-> NoEntry]

Init == InitBridge /\ cache = EmptyCache(Keys) /\ slots = {1} /\ chunkLimit = 1

InitStream == InitBridge /\ cache = EmptyCache(Keys) /\ slots = {1} /\ chunkLimit = MaxChunks

\* requests of both dialects, with numeric fields inside and outside their ranges
InitNormalize == InitBridge /\ cache = EmptyCache(AllKeys) /\ slots = {1} /\ chunkLimit = 1

\* the mean of the response times is kept, from 0
InitMetrics ==
  /\ InitOptions /\ metrics = InitialMetrics({<<0, 1>>})
  /\ cache = EmptyCache(Keys) /\ slots = {1} /\ chunkLimit = 0

\* every slot takes calls: the calls run concurrently
InitConcurrent == InitBridge /\ cache = EmptyCache(Keys) /\ slots = Procs /\ chunkLimit = 0

\* ---------------------------------------------------------------- initializeAuthMethods
\* the import of the SDK module settles
ImportSdk ==
  /\ initPc = "importSdk"
  /\ IF env.sdkLoads
       THEN authMethod' = "sdk" /\ initPc' = "done"
       ELSE authMethod' = authMethod /\ initPc' = "importCli"
  /\ UNCHANGED <<options, env, cache, metrics, now, slots, chunkLimit, calls>>

\* the import of the CLI module settles
ImportCli ==
  /\ initPc = "importCli"
  /\ authMethod' = IF env.cliLoads THEN "cli" ELSE "none"
  /\ initPc' = "done"
  /\ UNCHANGED <<options, env, cache, metrics, now, slots, chunkLimit, calls>>

\* ---------------------------------------------------------------- proxyRequest
\* the fields of a request that the client sets in the body
BodyOf(request) ==
  [ model |-> request.model, messages |-> request.messages, max_tokens |-> request.max_tokens,
    temperature |-> request.temperature, system |-> request.system ]

\* an entry stored for a request with the same body fields exists, and its TTL
\* has not elapsed / has elapsed
StoredWithin(request) ==
  \E k \in DOMAIN cache : /\ Present(cache[k])
                   /\ cache[k].src = BodyOf(request)
                   /\ \A at \in cache[k].at : now <= at + options.cacheTtl
StoredElapsed(request) ==
  \E k \in DOMAIN cache : /\ Present(cache[k])
                   /\ cache[k].src = BodyOf(request)
                   /\ \A at \in cache[k].at : now > at + options.cacheTtl

\* an entry stored for a request with the same canonical request exists, and
\* its TTL has not elapsed
StoredCanonical(request) ==
  \E k \in DOMAIN cache : /\ Present(cache[k])
                   /\ cache[k].canon = CanonicalOf(transformToClaudeFormat(request))
                   /\ \A at \in cache[k].at : now <= at + options.cacheTtl

\* the calls that are in a backoff sleep, each with the number of its sleep
Sleepers == { <<q, Len(calls[q].sleeps)>> : q \in { r \in Procs : calls[r].pc = "sleeping" } }

\* the non-streaming calls under way that wait for the adapter's answer to a
\* request with cache key `key`
UnderWay(key) ==
  { r \in Procs : /\ calls[r].pc \in {"calling", "sleeping"}
                   /\ ~calls[r].stream
                   /\ generateCacheKey(calls[r].request) = key }

\* the bridge takes a call in slot p: a sleep of another call is a pending
\* timer, it does not hold up the event loop
AcceptsUnlessAsleep(p) ==
  /\ p \in slots
  /\ calls[p].pc = "idle"
  /\ metrics.requests < MaxRequests
  /\ Sleepers = {}
Accepts(p) ==
  /\ p \in slots
  /\ calls[p].pc = "idle"
  /\ metrics.requests < MaxRequests

\* the request the HTTP layer hands over: the body, plus a request id that it
\* generates, here the number of the call; the GitHub Actions endpoint marks
\* the requests it makes from the bodies it transformed
RequestOf(p, body, method) ==
  [ model |-> body.model, messages |-> body.messages, max_tokens |-> body.max_tokens,
    temperature |-> body.temperature, system |-> body.system,
    method |-> method, requestId |-> metrics.requests + 1,
    isGitHubActions |-> "action" \in DOMAIN body ]

\* the structured error proxyRequest throws
ProxyError(c, error) ==
  [ status |-> IF error.status = {} THEN {500} ELSE error.status,
    message |-> error.message,
    requestId |-> c.request.requestId,
    responseTime |-> {now - c.startTime},
    retryable |-> {isRetryableError(error)} ]

\* the structured error proxyRequestStream throws: no retryable field
StreamError(c, error) ==
  [ status |-> IF error.status = {} THEN {500} ELSE error.status,
    message |-> error.message,
    requestId |-> c.request.requestId,
    responseTime |-> {now - c.startTime},
    retryable |-> {} ]

\* the backoff before the retry that follows attempt number `attempt`
BackoffConstant(attempt) == options.retryDelay
BackoffDelay(attempt) == options.retryDelay * Pow2(attempt - 1)

\* the retry decision of the catch blocks of executeWithRetry and
\* executeStreamWithRetry
ShouldRetryOnce(c, error) == c.attempt <= options.retryAttempts /\ isRetryableError(error)
ShouldRetryUpToFour(c, error) == c.attempt < 4 /\ isRetryableError(error)
ShouldRetry(c, error) == c.attempt < options.retryAttempts /\ isRetryableError(error)

\* onChunk(text, kind)
Emit(events, kind, text) == Append(events, <<kind, text>>)

\* the catch block of proxyRequestStream sends the error to the stream
StreamCatchSilent(c) == c.events
StreamCatchEvents(c) == Emit(c.events, "error", "ERROR")

\* an attempt of call c failed with `error`: back off, or give up and let the
\* catch block of proxyRequest / proxyRequestStream build the thrown error
AfterFailure(c, error) ==
  IF ShouldRetry(c, error)
    THEN [c EXCEPT !.pc = "sleeping",
                   !.errs = Append(@, error),
                   !.sleeps = Append(@, BackoffDelay(c.attempt))]
    ELSE [c EXCEPT !.pc = "failed",
                   !.errs = Append(@, error),
                   !.events = IF c.stream THEN StreamCatchEvents(c) ELSE @,
                   !.error = IF c.stream THEN StreamError(c, error) ELSE ProxyError(c, error)]

\* getCapabilities().streaming.supported
StreamingSupported(method) == method # "none"

\* the adapter that attempt number n of a call goes to: the pinned one
FallbackAdapter(n) == IF n > 1 /\ authMethod = "sdk" THEN "cli" ELSE authMethod
ActiveAdapter(n) == authMethod

\* the attempt number of the retry of call c: executeWithRetry calls itself
\* with attempt + 1
NextAttemptOfAll(c) == 1 + Max(calls[1].attempt, calls[2].attempt)
NextAttempt(c) == c.attempt + 1

\* what an invocation of the adapter can come to: without the claude command,
\* the CLI adapter finds it missing every time, and so does the query of the
\* SDK adapter once the package is gone
Possible(adapter, outcome) ==
  IF (adapter = "cli" /\ ~env.cliResolves) \/ (adapter = "sdk" /\ ~env.sdkLoads)
    THEN outcome = "missing" ELSE outcome # "missing"

\* the switch on this.authMethod of executeWithRetry, for attempt number n
ExecuteAttempt(c, n) ==
  LET d == [c EXCEPT !.attempt = n, !.adapter = ActiveAdapter(n)] IN
  IF d.adapter \in {"api", "sdk", "cli"}
    THEN [d EXCEPT !.pc = "calling", !.nCalls = @ + 1]
    ELSE AfterFailure(d, NoAuthError)

\* the switch on this.authMethod of executeStreamWithRetry, for attempt n;
\* neither ClaudeCodeSDK nor ClaudeCodeCLI has an executeStream method
ExecuteStreamAttempt(c, n) ==
  LET d == [c EXCEPT !.attempt = n, !.adapter = ActiveAdapter(n)] IN
  CASE d.adapter = "api" -> [d EXCEPT !.pc = "streaming", !.nCalls = @ + 1]
    [] d.adapter \in {"sdk", "cli"} -> AfterFailure(d, NoStreamMethodError)
    [] OTHER -> AfterFailure(d, NoAuthError)

\* metrics after a segment that took call p from c to d
SettleAsMiss(m, d) ==
  IF d.pc = "failed" THEN [m EXCEPT !.errors = @ + 1]
  ELSE IF d.stream THEN [m EXCEPT !.cacheMisses = @ + 1] ELSE m
SettleEveryAttempt(m, d) ==
  IF d.pc \in {"failed", "sleeping"} THEN [m EXCEPT !.errors = @ + 1] ELSE m
Settle(m, d) ==
  IF d.pc = "failed" THEN [m EXCEPT !.errors = @ + 1] ELSE m

\* what the segment that ended call c added to metrics.errors
Finished(c, m) ==
  IF c.pc = "failed"
    THEN [c EXCEPT !.dErrors = m.errors - metrics.errors, !.startTime = 0]
    ELSE c

\* proxyRequest(request), up to its first await
ProxyRequest(p, body, method) ==
  /\ Accepts(p)
  /\ LET request == RequestOf(p, body, method)
         cacheKey == generateCacheKey(request)
         consult == options.cacheEnabled /\ request.method # "POST"
         hit == consult /\ Live(cache[cacheKey])
         m1 == [metrics EXCEPT !.requests = @ + 1]
         c0 == [IdleCall EXCEPT !.request = request, !.startTime = now,
                                !.liveAtStart = consult /\ StoredWithin(request),
                                !.staleAtStart = consult /\ StoredElapsed(request),
                                !.sameCanonAtStart = consult /\ StoredCanonical(request),
                                !.duringSleepOf = Sleepers,
                                !.racing = UnderWay(cacheKey)]
     IN
       IF hit
         THEN LET m2 == [m1 EXCEPT !.cacheHits = @ + 1] IN
              /\ metrics' = m2
              /\ cache' = cache
              /\ calls' = [calls EXCEPT ![p] =
                   [c0 EXCEPT !.pc = "done",
                              !.hit = cache[cacheKey],
                              !.startTime = 0,
                              !.result = formatResponse(cache[cacheKey].v, [fromCache |-> {TRUE}]),
                              !.dHits = m2.cacheHits - metrics.cacheHits,
                              !.dMisses = m2.cacheMisses - metrics.cacheMisses]]
         ELSE LET m2 == IF consult THEN [m1 EXCEPT !.cacheMisses = @ + 1] ELSE m1
                  c1 == ExecuteAttempt([c0 EXCEPT !.creq = transformToClaudeFormat(request)], 1)
                  m3 == Settle(m2, c1)
              IN
              /\ metrics' = m3
              /\ cache' = IF consult THEN CacheAfterGet(cacheKey) ELSE cache
              /\ calls' = [calls EXCEPT ![p] =
                   [Finished(c1, m3) EXCEPT !.dHits = m3.cacheHits - metrics.cacheHits,
                                            !.dMisses = m3.cacheMisses - metrics.cacheMisses]]
  /\ UNCHANGED <<options, env, authMethod, initPc, now, slots, chunkLimit>>

\* proxyRequestStream(request, onChunk), up to its first await: the cache is
\* not consulted
ProxyRequestStream(p, body) ==
  /\ Accepts(p)
  /\ LET request == RequestOf(p, body, Undefined)
         m1 == [metrics EXCEPT !.requests = @ + 1]
         c0 == [IdleCall EXCEPT !.stream = TRUE, !.request = request, !.startTime = now,
                                !.creq = transformToClaudeFormat(request),
                                !.duringSleepOf = Sleepers]
         c1 == ExecuteStreamAttempt(c0, 1)
         m2 == Settle(m1, c1)
     IN /\ metrics' = m2
        /\ calls' = [calls EXCEPT ![p] = Finished(c1, m2)]
  /\ UNCHANGED <<options, env, authMethod, initPc, cache, now, slots, chunkLimit>>

\* POST /api/github-actions/claude: the body is transformed, then handed to
\* proxyRequestStream if it asks for a stream, to proxyRequest otherwise
GitHubActionsRequest(p, ghRequest) ==
  IF ghRequest.stream
    THEN ProxyRequestStream(p, transformGitHubActionsRequest(ghRequest))
    ELSE ProxyRequest(p, transformGitHubActionsRequest(ghRequest), Undefined)

\* POST /api/claude/messages/stream: the types of the events written to the
\* response for the streaming call c. The connection event is written before
\* proxyRequestStream is called, the callback writes one event for every call
\* of onChunk, with its type, and the handler ends with the complete event
\* when proxyRequestStream returns, with an error event when it throws
SseWire(c) ==
  <<"connection">>
  \o [i \in 1..Len(c.events) |-> c.events[i][1]]
  \o (CASE c.pc = "done" -> <<"complete">>
         [] c.pc = "failed" -> <<"error">>
         [] OTHER -> <<>>)

\* what streamAnthropicAPI passes to onChunk for one chunk of the stream
RelayNewestFirst(events, chunk) ==
  IF chunk.type = "content_block_delta" /\ chunk.text # ""
    THEN <<(<<"content", chunk.text>>)>> \o events ELSE events
Relay(events, chunk) ==
  CASE chunk.type = "content_block_delta" ->
         IF chunk.text # "" THEN Emit(events, "content", chunk.text) ELSE events
    [] chunk.type = "message_start" -> Emit(events, "start", "")
    [] chunk.type = "message_stop" -> Emit(events, "stop", "")
    [] OTHER -> events

\* streamAnthropicAPI: the upstream stream yields a chunk
StreamChunk(p, chunk) ==
  /\ calls[p].pc = "streaming"
  /\ Len(calls[p].emitted) < chunkLimit
  /\ calls' = [calls EXCEPT ![p].emitted = Append(@, [type |-> chunk.type, text |-> chunk.text,
                                                       attempt |-> calls[p].attempt]),
                            ![p].events = Relay(@, chunk)]
  /\ UNCHANGED <<options, env, authMethod, initPc, cache, metrics, now, slots, chunkLimit>>

\* streamAnthropicAPI: the upstream stream ends, proxyRequestStream returns
StreamEnd(p) ==
  /\ calls[p].pc = "streaming"
  /\ calls' = [calls EXCEPT ![p].pc = "done", ![p].startTime = 0]
  /\ metrics' = Answered(metrics)
  /\ UNCHANGED <<options, env, authMethod, initPc, cache, now, slots, chunkLimit>>

\* streamAnthropicAPI: the request or the iteration of the stream raises
StreamReject(p, outcome) ==
  /\ calls[p].pc = "streaming"
  /\ Possible(calls[p].adapter, outcome)
  /\ LET c1 == AfterFailure(calls[p], AdapterError(calls[p].adapter, outcome))
         m1 == Settle(metrics, c1)
     IN /\ metrics' = m1
        /\ calls' = [calls EXCEPT ![p] = Finished(c1, m1)]
  /\ UNCHANGED <<options, env, authMethod, initPc, cache, now, slots, chunkLimit>>

\* the adapter call of a non-streaming attempt resolves with a response:
\* updateMetrics, cache.set, formatResponse
AdapterResolve(p) ==
  /\ calls[p].pc = "calling"
  /\ Possible(calls[p].adapter, "ok")
  /\ LET c == calls[p]
         response == AdapterResponse(c.adapter, c.creq)
         cacheKey == generateCacheKey(c.request)
         store == options.cacheEnabled /\ response.usage
         returned == formatResponse(response,
                       [requestId |-> {c.request.requestId},
                        responseTime |-> {now - c.startTime}])
         cache1 == IF store THEN CacheSet(cache, cacheKey, response, options.cacheTtl) ELSE cache
         cache2 == IF store /\ Present(cache1[cacheKey])
                     THEN [cache1 EXCEPT ![cacheKey].at = {now},
                                         ![cacheKey].src = BodyOf(c.request),
                                         ![cacheKey].ret = returned,
                                         ![cacheKey].canon = CanonicalOf(c.creq)]
                     ELSE cache1
     IN
       /\ metrics' = Answered(updateMetrics(metrics, now - c.startTime))
       /\ cache' = cache2
       /\ calls' = [calls EXCEPT ![p] =
            [c EXCEPT !.pc = "done",
                      !.result = returned,
                      !.stored = cache2[cacheKey],
                      !.startTime = 0]]
  /\ UNCHANGED <<options, env, authMethod, initPc, now, slots, chunkLimit>>

\* the adapter call of a non-streaming attempt rejects with `error`: the catch
\* block of executeWithRetry
AdapterRejectWith(p, error) ==
  /\ calls[p].pc = "calling"
  /\ LET c1 == AfterFailure(calls[p], error)
         m1 == Settle(metrics, c1)
     IN /\ metrics' = m1
        /\ calls' = [calls EXCEPT ![p] = Finished(c1, m1)]
  /\ UNCHANGED <<options, env, authMethod, initPc, cache, now, slots, chunkLimit>>

\* the adapter call of a non-streaming attempt rejects
AdapterReject(p, outcome) ==
  /\ Possible(calls[p].adapter, outcome)
  /\ AdapterRejectWith(p, AdapterError(calls[p].adapter, outcome))

\* the adapter call rejects with one of the errors the backend can raise
AdapterRaise(p, error) ==
  /\ error \in ErrorsOf(calls[p].adapter)
  /\ AdapterRejectWith(p, error)

\* the upstream does not answer: the timer of the adapter call (the abort
\* timer of ClaudeCodeSDK.execute, the kill timer of ClaudeCodeCLI.execute, the
\* request timeout of the API client) fires and the call rejects
AdapterTimeout(p) == AdapterReject(p, "timeout")

\* sleep(delay) is over: the next attempt starts
Wake(p) ==
  /\ calls[p].pc = "sleeping"
  /\ LET c == calls[p]
         c1 == IF c.stream THEN ExecuteStreamAttempt(c, NextAttempt(c))
                           ELSE ExecuteAttempt(c, NextAttempt(c))
         m1 == Settle(metrics, c1)
     IN /\ metrics' = m1
        /\ calls' = [calls EXCEPT ![p] = Finished(c1, m1)]
  /\ UNCHANGED <<options, env, authMethod, initPc, cache, now, slots, chunkLimit>>

\* the caller has its answer; the slot is free for the next call
Return(p) ==
  /\ calls[p].pc \in {"done", "failed"}
  /\ calls' = [calls EXCEPT ![p] = IdleCall]
  /\ UNCHANGED <<options, env, authMethod, initPc, cache, metrics, now, slots, chunkLimit>>

\* the environment changes after initialization: Claude Code is removed from
\* the machine, the pinned SDK or CLI adapter has nothing to run any more
BackendLost ==
  /\ initPc = "done"
  /\ authMethod \in {"sdk", "cli"}
  /\ env.sdkLoads \/ env.cliResolves
  /\ env' = [env EXCEPT !.sdkLoads = FALSE, !.cliResolves = FALSE]
  /\ UNCHANGED <<options, authMethod, initPc, cache, metrics, now, slots, chunkLimit, calls>>

\* clearCache()
ClearCacheOne ==
  /\ options.cacheEnabled
  /\ \E k \in DOMAIN cache : Present(cache[k]) /\ cache' = [cache EXCEPT ![k] = NoEntry]
  /\ UNCHANGED <<options, env, authMethod, initPc, metrics, now, slots, chunkLimit, calls>>
ClearCache ==
  /\ options.cacheEnabled
  /\ \E k \in DOMAIN cache : Present(cache[k])
  /\ cache' = [k \in DOMAIN cache |-> NoEntry]
  /\ UNCHANGED <<options, env, authMethod, initPc, metrics, now, slots, chunkLimit, calls>>

\* NodeCache's periodic check deletes the expired entries
Sweep ==
  /\ \E k \in DOMAIN cache : Present(cache[k]) /\ ~Live(cache[k])
  /\ cache' = [k \in DOMAIN cache |-> IF Live(cache[k]) THEN cache[k] ELSE NoEntry]
  /\ UNCHANGED <<options, env, authMethod, initPc, metrics, now, slots, chunkLimit, calls>>

\* time passes
Tick ==
  /\ now < MaxTime
  /\ now' = now + 1
  /\ UNCHANGED <<options, env, authMethod, initPc, cache, metrics, slots, chunkLimit, calls>>

Next ==
  \/ ImportSdk
  \/ ImportCli
  \/ \E p \in Procs, body \in Bodies, method \in Methods : ProxyRequest(p, body, method)
  \/ \E p \in Procs, body \in Bodies : ProxyRequestStream(p, body)
  \/ \E p \in Procs, chunk \in Chunks : StreamChunk(p, chunk)
  \/ \E p \in Procs : StreamEnd(p)
  \/ \E p \in Procs, outcome \in Outcomes \ {"ok"} : StreamReject(p, outcome)
  \/ \E p \in Procs : AdapterResolve(p)
  \/ \E p \in Procs, outcome \in Outcomes \ {"ok"} : AdapterReject(p, outcome)
  \/ \E p \in Procs : Wake(p)
  \/ \E p \in Procs : Return(p)
  \/ ClearCache
  \/ Sweep
  \/ Tick

Spec == Init /\ [][Next]_vars

\* the streaming path: initialization, streaming calls, their retries
NextStream ==
  \/ ImportSdk
  \/ ImportCli
  \/ \E p \in Procs, body \in Bodies : ProxyRequestStream(p, body)
  \/ \E p \in Procs, chunk \in Chunks : StreamChunk(p, chunk)
  \/ \E p \in Procs : StreamEnd(p)
  \/ \E p \in Procs, outcome \in Outcomes \ {"ok"} : StreamReject(p, outcome)
  \/ \E p \in Procs : Wake(p)
  \/ \E p \in Procs : Return(p)

SpecStream == InitStream /\ [][NextStream]_vars

\* the normalization of requests: both dialects, both paths, with numeric
\* fields inside and outside their ranges, and adapters that answer
NextNormalize ==
  \/ ImportSdk
  \/ ImportCli
  \/ \E p \in Procs, body \in NumericBodies : ProxyRequest(p, body, Undefined)
  \/ \E p \in Procs, body \in NumericBodies : ProxyRequestStream(p, body)
  \/ \E p \in Procs, ghRequest \in GhBodies : GitHubActionsRequest(p, ghRequest)
  \/ \E p \in Procs : StreamEnd(p)
  \/ \E p \in Procs : AdapterResolve(p)
  \/ \E p \in Procs : Return(p)

SpecNormalize == InitNormalize /\ [][NextNormalize]_vars

\* concurrent calls: every slot is open, the clock stands still, the upstream
\* streams yield no chunk before they end or fail
NextConcurrent ==
  \/ ImportSdk
  \/ ImportCli
  \/ \E p \in Procs, body \in Bodies : ProxyRequest(p, body, Undefined)
  \/ \E p \in Procs, body \in Bodies : ProxyRequestStream(p, body)
  \/ \E p \in Procs : StreamEnd(p)
  \/ \E p \in Procs, outcome \in Outcomes \ {"ok"} : StreamReject(p, outcome)
  \/ \E p \in Procs : AdapterResolve(p)
  \/ \E p \in Procs, outcome \in Outcomes \ {"ok"} : AdapterReject(p, outcome)
  \/ \E p \in Procs : Wake(p)
  \/ \E p \in Procs : Return(p)

SpecConcurrent == InitConcurrent /\ [][NextConcurrent]_vars

\* an upstream that never answers: every adapter call ends by its timer, but
\* for the call of a CLI adapter that does not find the claude command. The
\* timers of the adapter calls and of the backoff sleeps fire, and the imports
\* of initializeAuthMethods settle
NextTimeout ==
  \/ ImportSdk
  \/ ImportCli
  \/ \E p \in Procs, body \in Bodies, method \in Methods : ProxyRequest(p, body, method)
  \/ \E p \in Procs : AdapterTimeout(p)
  \/ \E p \in Procs : AdapterReject(p, "missing")
  \/ \E p \in Procs : Wake(p)
  \/ \E p \in Procs : Return(p)

SpecTimeout ==
  /\ Init /\ [][NextTimeout]_vars
  /\ WF_vars(ImportSdk) /\ WF_vars(ImportCli)
  /\ \A p \in Procs : /\ WF_vars(AdapterTimeout(p))
                       /\ WF_vars(AdapterReject(p, "missing"))
                       /\ WF_vars(Wake(p))

\* the metrics: calls of both paths that are answered, from the cache or by the
\* adapter, or fail, while time passes
NextMetrics ==
  \/ ImportSdk
  \/ ImportCli
  \/ \E p \in Procs, body \in Bodies : ProxyRequest(p, body, Undefined)
  \/ \E p \in Procs, body \in Bodies : ProxyRequestStream(p, body)
  \/ \E p \in Procs : StreamEnd(p)
  \/ \E p \in Procs : AdapterResolve(p)
  \/ \E p \in Procs, outcome \in Outcomes \ {"ok"} : AdapterReject(p, outcome)
  \/ \E p \in Procs : Wake(p)
  \/ \E p \in Procs : Return(p)
  \/ Tick

SpecMetrics == InitMetrics /\ [][NextMetrics]_vars

\* a backend that goes away after it was pinned
NextLost ==
  \/ ImportSdk
  \/ ImportCli
  \/ BackendLost
  \/ \E p \in Procs, body \in Bodies : ProxyRequest(p, body, Undefined)
  \/ \E p \in Procs : AdapterResolve(p)
  \/ \E p \in Procs, outcome \in Outcomes \ {"ok"} : AdapterReject(p, outcome)
  \/ \E p \in Procs : Wake(p)
  \/ \E p \in Procs : Return(p)

SpecLost == Init /\ [][NextLost]_vars

\* the classification of errors: adapters that raise every kind of error
NextClassify ==
  \/ ImportSdk
  \/ ImportCli
  \/ \E p \in Procs, body \in Bodies : ProxyRequest(p, body, Undefined)
  \/ \E p \in Procs, error \in ApiErrors \cup ErrorsOf("sdk") \cup ErrorsOf("cli") :
       AdapterRaise(p, error)
  \/ \E p \in Procs : Wake(p)
  \/ \E p \in Procs : Return(p)

SpecClassify == Init /\ [][NextClassify]_vars

\* the retry loops of both paths, with adapters whose every call returns or
\* raises: an adapter call or an upstream stream that is under way comes to an
\* end, the timer of a backoff sleep fires, the imports settle
NextRetry ==
  \/ ImportSdk
  \/ ImportCli
  \/ \E p \in Procs, body \in Bodies : ProxyRequest(p, body, Undefined)
  \/ \E p \in Procs, body \in Bodies : ProxyRequestStream(p, body)
  \/ \E p \in Procs : StreamEnd(p)
  \/ \E p \in Procs, outcome \in Outcomes \ {"ok"} : StreamReject(p, outcome)
  \/ \E p \in Procs : AdapterResolve(p)
  \/ \E p \in Procs, outcome \in Outcomes \ {"ok"} : AdapterReject(p, outcome)
  \/ \E p \in Procs : Wake(p)
  \/ \E p \in Procs : Return(p)

AdapterSettles(p) ==
  \/ AdapterResolve(p)
  \/ \E outcome \in Outcomes \ {"ok"} : AdapterReject(p, outcome)
  \/ StreamEnd(p)
  \/ \E outcome \in Outcomes \ {"ok"} : StreamReject(p, outcome)

SpecRetry ==
  /\ Init /\ [][NextRetry]_vars
  /\ WF_vars(ImportSdk) /\ WF_vars(ImportCli)
  /\ \A p \in Procs : WF_vars(AdapterSettles(p)) /\ WF_vars(Wake(p))

\* ================================================================ properties
\* error messages of the model that report a refused credential
AuthMessages == {"invalid x-api-key", "Invalid API key", "Claude Code CLI failed: Invalid API key"}

SeqSum(q) == LET S[i \in 0..Len(q)] == IF i = 0 THEN 0 ELSE S[i - 1] + q[i] IN S[Len(q)]

AllRetryable(errs) == \A i \in 1..Len(errs) : isRetryableError(errs[i])

\* a non-streaming call that is under way or finished
Plain(c) == c.pc # "idle" /\ ~c.stream
\* a streaming call that is under way or finished
Streaming(c) == c.pc # "idle" /\ c.stream
\* a non-streaming call answered by the adapter / from the cache
AnsweredByAdapter(c) == Plain(c) /\ c.pc = "done" /\ c.nCalls > 0
AnsweredFromCache(c) == Plain(c) /\ c.pc = "done" /\ c.nCalls = 0

\* C1: with the cache enabled, a successful non-streaming call leaves its
\* response in the cache for cacheTtl, under its request's body fields; and a
\* non-streaming, non-POST call whose body fields equal those of an entry
\* stored no longer than cacheTtl ago, whatever its request id, is answered
\* from the cache: the adapter is not invoked for it, so that the adapter
\* invocations of the two calls are those of the first, and cacheHits grows by
\* exactly one across it.
C1_SecondCallFromCache ==
  \A p \in Procs :
    LET c == calls[p] IN
    /\ (AnsweredByAdapter(c) /\ options.cacheEnabled) =>
          /\ Present(c.stored)
          /\ c.stored.v.content = c.result.content
          /\ c.stored.src = BodyOf(c.request)
          /\ c.stored.t = { at + options.cacheTtl : at \in c.stored.at }
    /\ (Plain(c) /\ c.liveAtStart) =>
          /\ c.pc = "done"
          /\ c.nCalls = 0
          /\ c.result.fromCache = {TRUE}
          /\ c.dHits = 1
          /\ c.dMisses = 0

\* a second call with another request id than the first is answered from the cache
C1_Witness ==
  \E p \in Procs :
    /\ Plain(calls[p]) /\ calls[p].liveAtStart /\ calls[p].pc = "done"
    /\ calls[p].hit.ret.requestId # {calls[p].request.requestId}
    /\ metrics.cacheHits = 1

\* the fields an adapter response carries
AdapterFields == {"content", "model", "usage"}

\* C2 as claimed: the response returned on a cache hit equals, field for field,
\* the response returned to the call that stored the entry.
C2_HitIdenticalToFirst ==
  \A p \in Procs :
    AnsweredFromCache(calls[p]) => calls[p].result = calls[p].hit.ret

\* C2 amended: the response returned on a cache hit is the response of the
\* first call for the same body fields in every field the adapter returned
\* (content, model, usage); it differs in the envelope: fromCache is true, the
\* timestamp is the time of the hit, responseTime is not set, and requestId is
\* what the adapter response carried (the first call's id with the sdk backend,
\* nothing otherwise), not the id of the call.
C2_HitSameAdapterFields ==
  \A p \in Procs :
    LET c == calls[p] IN
    AnsweredFromCache(c) =>
      /\ c.hit.src = BodyOf(c.request)
      /\ \A f \in AdapterFields : c.result[f] = c.hit.ret[f]
      /\ c.result.fromCache = {TRUE}
      /\ c.hit.ret.fromCache = {}
      /\ c.result.responseTime = {}
      /\ c.hit.ret.responseTime # {}
      /\ c.result.requestId = c.hit.v.requestId

C2_Witness ==
  \E p \in Procs :
    /\ AnsweredFromCache(calls[p])
    /\ calls[p].result.content = <<"answer", 1>>
    /\ calls[p].request.requestId = 2

\* C3: an adapter that fails N times with a retryable error and then succeeds,
\* with retryAttempts > N: the call is not given up, it succeeds after exactly
\* N + 1 adapter invocations, the wait after the k-th failure is
\* retryDelay * 2^(k-1), and the waits add up to retryDelay * (2^N - 1).
C3_RetryBackoff ==
  \A p \in Procs :
    LET c == calls[p]
        N == Len(c.errs)
    IN
    Plain(c) =>
      /\ \A k \in 1..Len(c.sleeps) : c.sleeps[k] = options.retryDelay * (2 ^ (k - 1))
      /\ c.pc = "sleeping" => Len(c.sleeps) = N /\ c.nCalls = N
      /\ AnsweredByAdapter(c) =>
            /\ AllRetryable(c.errs)
            /\ N < options.retryAttempts \/ N = 0
            /\ c.nCalls = N + 1
            /\ Len(c.sleeps) = N
            /\ SeqSum(c.sleeps) = options.retryDelay * (2 ^ N - 1)
      /\ (c.pc = "failed" /\ AllRetryable(c.errs)) => N >= options.retryAttempts

\* two retryable failures, then success
C3_Witness ==
  \E p \in Procs :
    /\ AnsweredByAdapter(calls[p])
    /\ Len(calls[p].errs) = 2
    /\ calls[p].sleeps = <<1, 2>>
    /\ calls[p].nCalls = 3

\* C4 as claimed: when every attempt fails with a retryable error, the adapter
\* is invoked exactly retryAttempts times and the call fails with that error
\* and retryable = true.
C4_ExactlyRetryAttempts ==
  \A p \in Procs :
    LET c == calls[p] IN
    (Plain(c) /\ c.pc = "failed" /\ c.nCalls > 0 /\ AllRetryable(c.errs)) =>
      /\ c.nCalls = options.retryAttempts
      /\ c.error.retryable = {TRUE}

\* C4 amended: when every attempt fails with a retryable error, the adapter is
\* invoked exactly max(1, retryAttempts) times (one attempt is always made, also
\* with retryAttempts = 0), no further attempt is made, and the call fails with
\* the last underlying error and retryable = true.
C4_ExactlyMaxOneRetryAttempts ==
  \A p \in Procs :
    LET c == calls[p] IN
    (Plain(c) /\ c.pc = "failed" /\ c.nCalls > 0 /\ AllRetryable(c.errs)) =>
      /\ c.nCalls = Max(1, options.retryAttempts)
      /\ Len(c.errs) = c.nCalls
      /\ Len(c.sleeps) = c.nCalls - 1
      /\ c.error.message = c.errs[Len(c.errs)].message
      /\ c.error.retryable = {TRUE}
      /\ c.dErrors = 1

\* the attempt budget of 3 is used up
C4_Witness ==
  \E p \in Procs :
    /\ Plain(calls[p]) /\ calls[p].pc = "failed"
    /\ calls[p].nCalls = 3 /\ options.retryAttempts = 3
    /\ calls[p].error.retryable = {TRUE}

\* C5: for every backend, a call whose adapter fails with an authentication
\* failure invokes the adapter exactly once, does not sleep, and fails with
\* retryable = false.
C5_AuthFailureIsFatal ==
  \A p \in Procs :
    LET c == calls[p] IN
    (Plain(c) /\ \E i \in 1..Len(c.errs) : c.errs[i].message \in AuthMessages) =>
      /\ c.pc = "failed"
      /\ c.nCalls = 1
      /\ c.sleeps = <<>>
      /\ c.error.retryable = {FALSE}

\* ---------------------------------------------------------------- streams
IsContentEvent(e) == e[1] = "content"
IsTerminalEvent(e) == e[1] \in {"stop", "error"}
IsDelta(chunk) == chunk.type = "content_block_delta"
IsTextDelta(chunk) == chunk.type = "content_block_delta" /\ chunk.text # ""

\* the texts onChunk received as content, in the order of their arrival
ReceivedTexts(c) ==
  LET q == SelectSeq(c.events, IsContentEvent) IN [i \in 1..Len(q) |-> q[i][2]]
\* the texts of the content chunks the upstream yielded, in the order it did
DeltaTexts(c) ==
  LET q == SelectSeq(c.emitted, IsDelta) IN [i \in 1..Len(q) |-> q[i].text]
NonEmptyDeltaTexts(c) ==
  LET q == SelectSeq(c.emitted, IsTextDelta) IN [i \in 1..Len(q) |-> q[i].text]

\* C6 as claimed: onChunk receives every content chunk the adapter emits, in
\* the order of emission, none dropped.
C6_AllChunksForwarded ==
  \A p \in Procs : Streaming(calls[p]) => ReceivedTexts(calls[p]) = DeltaTexts(calls[p])

\* C6 amended: onChunk receives every content chunk that carries a non-empty
\* text, in the order of emission, none dropped and none reordered; a content
\* chunk without text is not forwarded.
C6_TextChunksForwarded ==
  \A p \in Procs : Streaming(calls[p]) => ReceivedTexts(calls[p]) = NonEmptyDeltaTexts(calls[p])

\* two different chunks have been relayed
C6_Witness ==
  \E p \in Procs : Streaming(calls[p]) /\ ReceivedTexts(calls[p]) = <<"a", "b">>

\* C7: onChunk receives exactly one terminal event (stop or error) per streaming
\* call, and no event after it.
C7_ExactlyOneTerminal ==
  \A p \in Procs :
    LET c == calls[p] IN
    Streaming(c) =>
      /\ \A i \in 1..(Len(c.events) - 1) : ~IsTerminalEvent(c.events[i])
      /\ c.pc \in {"done", "failed"} =>
            Len(c.events) >= 1 /\ IsTerminalEvent(c.events[Len(c.events)])

\* each attempt's upstream yields message_start as its first chunk or not at all
StartsFirst(c) ==
  \A i \in 1..Len(c.emitted) :
    c.emitted[i].type = "message_start" =>
      i = 1 \/ c.emitted[i - 1].attempt # c.emitted[i].attempt

\* C8: when the upstream of each attempt starts with its message_start,
\* onChunk observes at most one start event in the call, before every content
\* event, also when the stream is retried.
C8_OneStartBeforeContent ==
  \A p \in Procs :
    LET c == calls[p] IN
    (Streaming(c) /\ StartsFirst(c)) =>
      \A i \in 1..Len(c.events) : c.events[i][1] = "start" => i = 1

\* C9: a streaming call that fails has sent a terminal error event to onChunk
\* when it rejects, and only a call that fails sends one.
C9_FailedStreamEndsWithError ==
  \A p \in Procs :
    LET c == calls[p] IN
    Streaming(c) =>
      /\ c.pc = "failed" =>
            /\ Len(c.events) >= 1
            /\ c.events[Len(c.events)][1] = "error"
            /\ c.dErrors = 1
      /\ (\E i \in 1..Len(c.events) : c.events[i][1] = "error") => c.pc = "failed"

\* the adapter raised after a chunk had been relayed
C9_Witness ==
  \E p \in Procs :
    /\ Streaming(calls[p]) /\ calls[p].pc = "failed"
    /\ calls[p].events = << <<"content", "a">>, <<"error", "ERROR">> >>

\* C10: a non-POST request whose body fields equal those of an entry stored
\* longer than cacheTtl ago is a cache miss: cacheMisses grows by one and the
\* adapter is invoked; stored no longer than cacheTtl ago, the adapter is not
\* invoked.
C10_ExpiredEntryMisses ==
  \A p \in Procs :
    LET c == calls[p] IN
    Plain(c) =>
      /\ c.staleAtStart =>
            /\ c.dMisses = 1
            /\ c.dHits = 0
            /\ c.nCalls >= 1
            /\ c.pc = "done" => c.result.fromCache = {}
      /\ c.liveAtStart => c.nCalls = 0 /\ c.dMisses = 0

\* the second call comes after the TTL of the entry of the first
C10_Witness ==
  \E p \in Procs :
    /\ AnsweredByAdapter(calls[p]) /\ calls[p].staleAtStart
    /\ metrics.cacheMisses = 2 /\ metrics.cacheHits = 0

\* ---------------------------------------------------------------- normalization
\* a call that has gone to the adapter
HandedToAdapter(c) == c.pc # "idle" /\ c.nCalls >= 1

\* C11: on the streaming and the non-streaming path, for requests of both
\* dialects, the request handed to the adapter has max_tokens equal to the
\* smaller of the requested value (4096 when none is requested) and the
\* ceiling 8192, never a larger raw value, and a temperature inside [0, 1].
C11_ClampedBeforeAdapter ==
  \A p \in Procs :
    LET c == calls[p] IN
    HandedToAdapter(c) =>
      /\ c.request.max_tokens = {} => c.creq.max_tokens = DefaultMaxTokens
      /\ \A n \in c.request.max_tokens :
            c.creq.max_tokens = IF n < TokenCeiling THEN n ELSE TokenCeiling
      /\ c.creq.max_tokens <= TokenCeiling
      /\ c.creq.temperature >= 0 /\ c.creq.temperature <= MaxTemperature
      /\ \A t \in c.request.temperature :
            (t >= 0 /\ t <= MaxTemperature) => c.creq.temperature = t

\* a streaming call of the GitHub Actions dialect that asks for 999999 tokens
\* at temperature 1.5 reaches the adapter with 8192 tokens at temperature 1.0
C11_Witness ==
  \E p \in Procs :
    /\ HandedToAdapter(calls[p]) /\ calls[p].stream
    /\ calls[p].request.max_tokens = {999999}
    /\ calls[p].request.temperature = {15}
    /\ calls[p].creq.max_tokens = TokenCeiling
    /\ calls[p].creq.temperature = MaxTemperature

\* ---------------------------------------------------------------- backends
\* C12: when the active backend is none, every call of proxyRequest and of
\* proxyRequestStream fails with the no-backend error after a single attempt:
\* no adapter is invoked, no backoff sleep is made, and the error that is
\* thrown carries retryable = false.
C12_NoBackendFailsFast ==
  \A p \in Procs :
    LET c == calls[p] IN
    (c.pc # "idle" /\ c.adapter = "none") =>
      /\ c.pc = "failed"
      /\ c.attempt = 1
      /\ c.nCalls = 0
      /\ c.sleeps = <<>>
      /\ c.error.message = NoAuthMessage
      /\ c.error.retryable = {FALSE}

\* C13: after initialization the active backend is the first available of api
\* (a credential is configured), sdk (the SDK module loads and its entry
\* function is callable) and cli (the claude command resolves on the path), and
\* none when none of them is available; cli is pinned only if the command
\* resolves.
C13_FirstAvailablePinned ==
  initPc = "done" =>
    authMethod = IF env.apiKey THEN "api"
                 ELSE IF env.sdkLoads THEN "sdk"
                 ELSE IF env.cliResolves THEN "cli"
                 ELSE "none"

\* C14: once initialization has assigned the active backend it never changes,
\* and every adapter invocation of every call, first attempt or retry, goes to
\* the pinned adapter, whatever errors that adapter has returned.
C14_PinnedBackendOnly ==
  [][ /\ authMethod # "unset" => authMethod' = authMethod
      /\ \A p \in Procs :
            calls'[p].nCalls > calls[p].nCalls =>
              /\ initPc = "done"
              /\ authMethod \in {"api", "sdk", "cli"}
              /\ calls'[p].adapter = authMethod ]_vars

\* the SDK adapter has failed twice, once refusing the credential, and the
\* third attempt goes to the SDK adapter again
C14_Witness ==
  \E p \in Procs :
    /\ calls[p].pc = "calling" /\ calls[p].nCalls = 3
    /\ calls[p].adapter = "sdk" /\ authMethod = "sdk"
    /\ \E i \in 1..Len(calls[p].errs) : calls[p].errs[i].message \in AuthMessages

\* ---------------------------------------------------------------- cache bypass
\* the entry call c left in the cache when its response came
WroteEntry(c) == Present(c.stored) /\ c.stored.ret = c.result

\* C15: a non-streaming call whose request.method is POST does not look the
\* cache up (no hit and no miss is counted, nothing is served from the cache),
\* and when it succeeds it creates or overwrites no cache entry.
C15_PostBypassesCache ==
  \A p \in Procs :
    LET c == calls[p] IN
    (Plain(c) /\ c.request.method = "POST") =>
      /\ c.dHits = 0 /\ c.dMisses = 0
      /\ ~Present(c.hit)
      /\ c.pc = "done" => c.nCalls >= 1 /\ ~WroteEntry(c)

C17_SameCanonicalHits ==
  \A p \in Procs :
    LET c == calls[p] IN
    (Plain(c) /\ c.sameCanonAtStart) =>
      /\ c.pc = "done"
      /\ c.nCalls = 0
      /\ c.dHits = 1
      /\ c.dMisses = 0

\* ---------------------------------------------------------------- concurrency
\* call p came in for the cache key of call q while q was under way, the cache
\* is enabled and held no entry for the key: p looked the cache up before q
\* had stored its response
Raced(p, q) ==
  /\ p # q
  /\ options.cacheEnabled
  /\ Plain(calls[p]) /\ Plain(calls[q])
  /\ q \in calls[p].racing
  /\ ~calls[p].liveAtStart
  /\ calls[q].request.requestId < calls[p].request.requestId

\* the key of the request of call p, and the content of the response p got
KeyOf(p) == generateCacheKey(calls[p].request)
ContentOf(p) == calls[p].result.content

\* C18: of two concurrent non-streaming requests with the same fingerprint, the
\* second of which looks the cache up before the first has stored its
\* response, both count a miss and both invoke the adapter; when the adapter
\* answers both, the cache holds one entry for the fingerprint, and each store
\* replaces the entry of the other: the entry is the response stored last.
C18_BothMissLastWriteWins ==
  [][ \A p, q \in Procs :
        Raced(p, q)' =>
          /\ calls'[p].dMisses = 1 /\ calls'[q].dMisses = 1
          /\ calls'[p].dHits = 0 /\ calls'[q].dHits = 0
          /\ calls'[p].nCalls >= 1 /\ calls'[q].nCalls >= 1
          /\ \A a, b \in {p, q} :
                (a # b /\ calls[a].pc = "calling" /\ calls'[a].pc = "done") =>
                  /\ Present(cache'[KeyOf(a)'])
                  /\ cache'[KeyOf(a)'].v.content = ContentOf(a)'
                  /\ calls[b].pc = "done" =>
                        /\ cache[KeyOf(b)].v.content = ContentOf(b)
                        /\ ContentOf(a)' # ContentOf(b) ]_vars

\* both calls missed and were answered, the first to come in last: the entry
\* is its response
C18_Witness ==
  \E p, q \in Procs :
    /\ Raced(p, q)
    /\ calls[p].pc = "done" /\ calls[q].pc = "done"
    /\ metrics.cacheMisses = 2 /\ metrics.cacheHits = 0
    /\ cache[KeyOf(q)].v.content = ContentOf(q)
    /\ cache[KeyOf(q)].v.content # ContentOf(p)

\* C19: while a call is in a backoff sleep the other calls go on: the bridge
\* takes a new call, and the adapter's answer to a call under way is taken and
\* completes that call, before the sleep is over.
C19_SleepSuspendsOnlyItsCall ==
  \A p, q \in Procs :
    (p # q /\ q \in slots /\ calls[p].pc = "sleeping") =>
      /\ (calls[q].pc = "idle" /\ metrics.requests < MaxRequests) =>
            ENABLED (\E body \in Bodies : ProxyRequest(q, body, Undefined))
      /\ (calls[q].pc = "calling" /\ Possible(calls[q].adapter, "ok")) =>
            ENABLED AdapterResolve(q)

\* a call came in during a sleep of the other call, went to the adapter and
\* was answered, and the other call is still in that sleep
C19_Witness ==
  \E p, q \in Procs :
    /\ p # q
    /\ calls[p].pc = "sleeping"
    /\ <<p, Len(calls[p].sleeps)>> \in calls[q].duringSleepOf
    /\ AnsweredByAdapter(calls[q])

\* the attempt number and the backoffs of call c follow from the failures of c
OwnRetryState(c) ==
  /\ c.pc \in {"calling", "streaming"} => c.attempt = Len(c.errs) + 1
  /\ c.pc = "sleeping" => c.attempt = Len(c.errs) /\ Len(c.sleeps) = Len(c.errs)
  /\ Len(c.sleeps) <= Len(c.errs)
  /\ \A k \in 1..Len(c.sleeps) : c.sleeps[k] = options.retryDelay * (2 ^ (k - 1))

\* C20 as claimed: with concurrent calls, streaming or not, the attempt number
\* and the backoffs of a call depend on its own failures only; every call
\* invokes the adapter at most retryAttempts times, and its k-th backoff is
\* retryDelay * 2^(k-1).
C20_AtMostRetryAttempts ==
  \A p \in Procs :
    calls[p].pc # "idle" =>
      /\ OwnRetryState(calls[p])
      /\ calls[p].nCalls <= options.retryAttempts

\* C20 amended: with concurrent calls, streaming or not, the attempt number and
\* the backoffs of a call depend on its own failures only; every call invokes
\* the adapter at most max(1, retryAttempts) times (the first attempt is made
\* also with retryAttempts = 0), and its k-th backoff is retryDelay * 2^(k-1),
\* whatever the number of attempts of the other calls.
C20_AtMostMaxOneRetryAttempts ==
  \A p \in Procs :
    calls[p].pc # "idle" =>
      /\ OwnRetryState(calls[p])
      /\ calls[p].nCalls <= Max(1, options.retryAttempts)
      /\ calls[p].attempt <= Max(1, options.retryAttempts)

\* a streaming call is in its first backoff, of retryDelay, while the other
\* call is at its third attempt
C20_Witness ==
  \E p, q \in Procs :
    /\ p # q
    /\ calls[p].pc = "calling" /\ calls[p].attempt = 3 /\ calls[p].sleeps = <<1, 2>>
    /\ calls[q].stream /\ calls[q].pc = "sleeping" /\ calls[q].attempt = 1
    /\ calls[q].sleeps = <<options.retryDelay>>
    /\ calls[q].request.requestId > calls[p].request.requestId

\* the errors of adapter calls that were torn down by their timer
TimeoutErrors == { AdapterError(a, "timeout") : a \in {"api", "sdk", "cli"} }
AllTimeouts(errs) == \A i \in 1..Len(errs) : errs[i] \in TimeoutErrors

\* C21: for each backend, an adapter call that does not complete is torn down
\* and its attempt fails with a timeout error; the timeout is retried up to the
\* attempt budget (max(1, retryAttempts) invocations, a backoff before each
\* retry) and then surfaced, and so a call that waits for an upstream that never
\* answers eventually fails.
C21_TimeoutRetriedThenSurfaced ==
  /\ [](\A p \in Procs :
         LET c == calls[p] IN
         (Plain(c) /\ c.pc = "failed" /\ c.nCalls >= 1 /\ AllTimeouts(c.errs)) =>
           /\ c.nCalls = Max(1, options.retryAttempts)
           /\ Len(c.sleeps) = c.nCalls - 1)
  /\ \A p \in Procs : (calls[p].pc = "calling") ~> (calls[p].pc = "failed")
\* the error that made call c give up: the last one of its attempts
LastError(c) == c.errs[Len(c.errs)]

\* C22: every error that proxyRequest or proxyRequestStream throws to its caller
\* is a structured object that carries the requestId of the request, the elapsed
\* time, and a retryable flag that equals the retry classification of the
\* underlying error.
C22_StructuredErrors ==
  \A p \in Procs :
    LET c == calls[p] IN
    c.pc = "failed" =>
      /\ c.error.requestId = c.request.requestId
      /\ c.error.responseTime # {}
      /\ c.error.retryable = {isRetryableError(LastError(c))}
\* the main prompts of the request bodies of the model
MainPrompts == {"hi"}

\* the last message of the request is the main prompt of a payload
EndsWithPrompt(messages) ==
  /\ messages # <<>>
  /\ messages[Len(messages)] \in { Message("user", <<t>>) : t \in MainPrompts }

\* C23: a request of the GitHub Actions dialect whose payload has neither
\* direct_prompt nor prompt fails with an InvalidRequest error, on both paths,
\* and no adapter is invoked for it.
C23_NoPromptIsInvalid ==
  \A p \in Procs :
    LET c == calls[p] IN
    (c.pc # "idle" /\ ~EndsWithPrompt(c.request.messages)) =>
      /\ c.pc = "failed"
      /\ c.nCalls = 0
      /\ c.error.message = "InvalidRequest"
\* what the caller of a finished non-streaming call gets: the response of
\* proxyRequest, or, from the GitHub Actions endpoint, its transformation
ReturnedFlags(c) ==
  IF c.request.isGitHubActions
    THEN LET g == transformGitHubActionsResponse(c.result) IN
         [success |-> g.success, error |-> {}, content |-> g.response]
    ELSE [success |-> c.result.success, error |-> c.result.is_error, content |-> c.result.content]

\* C24: every response returned to a caller, from any backend, fresh or from the
\* cache, in either dialect, has its success flag or its error flag set, and
\* has non-empty content whenever its success flag is set.
C24_SuccessOrErrorFlag ==
  \A p \in Procs :
    LET c == calls[p] IN
    (Plain(c) /\ c.pc = "done") =>
      /\ ReturnedFlags(c).success = {TRUE} \/ ReturnedFlags(c).error = {TRUE}
      /\ ReturnedFlags(c).success = {TRUE} => ReturnedFlags(c).content # <<>>
\* C25: after any sequence of requests, averageResponseTime is the arithmetic
\* mean of the response times recorded so far (0 before the first), also when
\* cache hits, failed requests or streaming requests come between the samples.
C25_AverageIsMean ==
  \A a \in metrics.averageResponseTime :
    IF metrics.samples = <<>>
      THEN a[1] = 0
      ELSE a[1] * Len(metrics.samples) = SeqSum(metrics.samples) * a[2]
\* C26: the max_tokens of every request handed to an adapter is a positive
\* integer, at least 1 and at most the ceiling, whatever max_tokens the client
\* gave, zero and negative values included.
C26_MaxTokensPositive ==
  \A p \in Procs :
    HandedToAdapter(calls[p]) =>
      /\ calls[p].creq.max_tokens >= 1
      /\ calls[p].creq.max_tokens <= TokenCeiling
\* the errors of an adapter that finds nothing to run
UnavailableErrors == { AdapterError(a, "missing") : a \in {"sdk", "cli"} }

\* C27: when the pinned sdk or cli adapter has become unavailable by the time a
\* request uses it, the call fails at once: the adapter is invoked exactly once,
\* there is no backoff, no other backend is tried, and the error thrown has
\* retryable = false.
C27_UnavailableIsFatal ==
  \A p \in Procs :
    LET c == calls[p] IN
    (Plain(c) /\ c.errs # <<>> /\ c.errs[1] \in UnavailableErrors) =>
      /\ c.pc = "failed"
      /\ c.nCalls = 1
      /\ c.sleeps = <<>>
      /\ c.adapter = authMethod
      /\ c.error.retryable = {FALSE}
\* the entries the cache holds
Entries == { k \in DOMAIN cache : Present(cache[k]) }

\* C28: the number of cache entries never exceeds the configured maximum
\* CACHE_MAX_SIZE: a response stored in a full cache evicts an entry.
C28_CacheSizeBounded ==
  \A max \in CacheMaxSizeChoices : Cardinality(Entries) <= max
\* the classification as the claim words it; a message indicates a rate limit
\* or a timeout by containing the words "rate limit" or "timeout"
ClaimedRetryable(error) ==
  \/ \E st \in error.status : st \in {429, 500, 502, 503, 504}
  \/ error.code \in {"ECONNRESET", "ETIMEDOUT", "ENOTFOUND"}
  \/ error.message \in RateLimitMessages \cup TimeoutMessages

\* a malformed request, a refused credential, no backend
ClaimedFatal(error) ==
  \/ error.status = {400}
  \/ error.status = {401}
  \/ error.status = {} /\ error.message \in AuthMessages
  \/ error = NoAuthError

LiveContents == [k \in DOMAIN cache |-> IF Live(cache[k]) THEN cache[k].v ELSE <<>>]

\* a step of the non-streaming call in slot p that leaves it unanswered or failed
FailingStep(p) ==
  /\ calls'[p] # calls[p]
  /\ Plain(calls'[p])
  /\ calls'[p].pc \in {"calling", "sleeping", "failed"}

\* a step that puts an entry where the cache held none, or another one
CreatesEntry(k) == Present(cache'[k]) /\ cache'[k] # cache[k]

\* C30: a proxyRequest that ends in an error, fatal or retryable after the last
\* attempt, leaves the contents of the cache as they were: no step of it,
\* from the lookup to the last failed attempt, changes what the cache holds.
\* An entry is created only on a cache miss after a successful adapter call: by
\* the step that answers a call that counted a miss.
C30_FailureLeavesCache ==
  [][ /\ \A p \in Procs : FailingStep(p) => LiveContents' = LiveContents
      /\ \A k \in DOMAIN cache :
           CreatesEntry(k) =>
             \E p \in Procs : /\ calls[p].pc = "calling"
                               /\ calls'[p].pc = "done"
                               /\ calls'[p].dMisses = 1 ]_vars
\* the backends initializeAuthMethods chooses from, and the choice of none
PinnedChoices == {"api", "sdk", "cli", "none"}

\* a backend is there to be pinned: a credential, or a module that loads
BackendAvailable == env.apiKey \/ env.sdkLoads \/ env.cliLoads

\* C31: every request, one issued right after construction while the backends
\* are still probed included, runs against the backend that the selection pins:
\* this.authMethod is one of api, sdk, cli, none in every state a request or a
\* status query can read it, every attempt of a call goes to one of these, and
\* no call fails with the no-backend error when a backend is available.
C31_NeverUnsetBackend ==
  /\ authMethod \in PinnedChoices
  /\ \A p \in Procs :
       LET c == calls[p] IN
       c.attempt >= 1 =>
         /\ c.adapter \in PinnedChoices
         /\ (\E i \in 1..Len(c.errs) : c.errs[i] = NoAuthError) => ~BackendAvailable
\* the number of events of the types `kinds` in the sequence `wire`
CountOf(wire, kinds) == Cardinality({ i \in 1..Len(wire) : wire[i] \in kinds })

\* C32: on the server-sent-event endpoint every stream begins with exactly one
\* connection event and ends with exactly one terminal event on the wire: one
\* complete event when the stream succeeds, one error event when it fails,
\* never two.
C32_OneTerminalOnWire ==
  \A p \in Procs :
    LET c == calls[p]
        wire == SseWire(c)
    IN (Streaming(c) /\ c.pc \in {"done", "failed"}) =>
         /\ wire[1] = "connection"
         /\ CountOf(wire, {"connection"}) = 1
         /\ wire[Len(wire)] = IF c.pc = "done" THEN "complete" ELSE "error"
         /\ CountOf(wire, {"complete", "error"}) = 1
\* the errors a backend raises
BackendErrors ==
  { AdapterError(a, o) : a \in {"api", "sdk", "cli"}, o \in {"auth", "transient", "timeout", "missing"} }

\* the backend raised nothing in the call, and the stream it sent, if any, ended
\* with message_stop
HealthyStream(c) ==
  /\ \A i \in 1..Len(c.errs) : c.errs[i] \notin BackendErrors
  /\ c.emitted # <<>> => c.emitted[Len(c.emitted)].type = "message_stop"

\* C33: whenever the bridge reports streaming as supported, with the active
\* backend api, sdk or cli, a streaming call against a healthy backend delivers
\* the content chunks of the backend to onChunk and ends with stop, not with an
\* error.
C33_SupportedStreamingWorks ==
  \A p \in Procs :
    LET c == calls[p] IN
    ( /\ Streaming(c) /\ c.pc \in {"done", "failed"}
      /\ c.adapter \in {"api", "sdk", "cli"} /\ StreamingSupported(c.adapter)
      /\ HealthyStream(c) ) =>
        /\ c.pc = "done"
        /\ ReceivedTexts(c) = NonEmptyDeltaTexts(c)
        /\ \A i \in 1..Len(c.events) : c.events[i][1] # "error"
        /\ c.emitted # <<>> => c.events[Len(c.events)][1] = "stop"
\* the counters of this.metrics
Counters == {"requests", "cacheHits", "cacheMisses", "errors"}

\* no call is under way
NoneInFlight == \A p \in Procs : calls[p].pc \in {"idle", "done", "failed"}

\* every call that has come in was answered from the cache, or failed, or was
\* answered by the adapter
Balanced ==
  NoneInFlight => metrics.requests = metrics.cacheHits + metrics.errors + metrics.answered

\* C34: the counters of the metrics never decrease, across clearCache neither,
\* and whenever no request is in flight, requests = cacheHits + errors + the
\* number of calls the adapter answered: a call that fails adds exactly one to
\* errors, however many attempts it made.
C34_CountersGrowAndBalance ==
  [][ /\ \A f \in Counters : metrics'[f] >= metrics[f]
      /\ Balanced'
      /\ \A p \in Procs :
           (calls[p].pc # "failed" /\ calls'[p].pc = "failed") =>
             metrics'.errors = metrics.errors + 1 ]_vars

\* a call was answered, the cache was cleared, and the next call has failed
\* after more than one attempt
C34_Witness ==
  \E p \in Procs :
    /\ NoneInFlight
    /\ calls[p].pc = "failed" /\ calls[p].nCalls >= 2
    /\ metrics.answered = 1 /\ metrics.errors = 1 /\ metrics.requests = 2
    /\ options.cacheEnabled /\ Entries = {}
\* the call is under way / has returned or thrown
UnderWayCall(c) == c.pc \in {"calling", "streaming", "sleeping"}
Completed(c) == c.pc \in {"done", "failed"}

\* C35 as claimed: if every adapter call returns or raises, every call of
\* proxyRequest and proxyRequestStream completes, after at least one and at
\* most max(1, retryAttempts) adapter invocations and at most retryAttempts - 1
\* backoff sleeps.
C35_CompletesWithinBudget ==
  /\ [](\A p \in Procs :
         LET c == calls[p] IN
         Completed(c) =>
           /\ c.nCalls >= 1
           /\ c.nCalls <= Max(1, options.retryAttempts)
           /\ Len(c.sleeps) <= options.retryAttempts - 1)
  /\ \A p \in Procs : UnderWayCall(calls[p]) ~> Completed(calls[p])

\* C35 amended: if every adapter call returns or raises, every call of
\* proxyRequest and proxyRequestStream completes, after at most
\* max(1, retryAttempts) adapter invocations and at most
\* max(0, retryAttempts - 1) backoff sleeps, one sleep fewer than attempts; a
\* call answered by the adapter has invoked it at least once, and a call
\* completes with no invocation only on a cache hit or when the switch on the
\* active backend has no adapter method to call.
C35_CompletesWithinMaxBudget ==
  /\ [](\A p \in Procs :
         LET c == calls[p] IN
         c.pc # "idle" =>
           /\ c.nCalls <= Max(1, options.retryAttempts)
           /\ Len(c.sleeps) <= Max(0, options.retryAttempts - 1)
           /\ Len(c.sleeps) <= c.attempt
           /\ (Completed(c) /\ c.nCalls = 0) =>
                \/ AnsweredFromCache(c)
                \/ c.pc = "failed" /\ LastError(c) \in {NoAuthError, NoStreamMethodError})
  /\ \A p \in Procs : UnderWayCall(calls[p]) ~> Completed(calls[p])

\* a call has failed after all of three attempts and two sleeps
C35_Witness ==
  \E p \in Procs :
    /\ calls[p].pc = "failed" /\ options.retryAttempts = 3
    /\ calls[p].nCalls = 3 /\ Len(calls[p].sleeps) = 2
\* a step that takes a live entry out of the cache: no expiry does
RemovesLiveEntry == \E k \in DOMAIN cache : Live(cache[k]) /\ ~Present(cache'[k])

\* a step by which the bridge takes, in slot p, a non-streaming request that is
\* not a POST, with the cache enabled and no entry under the key of the request
StartsUncached(p) ==
  /\ calls[p].pc = "idle" /\ Plain(calls'[p])
  /\ options.cacheEnabled /\ calls'[p].request.method # "POST"
  /\ ~Present(cache[generateCacheKey(calls'[p].request)])

\* C36: after clearCache the cache holds no entries, so that the next request
\* for a fingerprint that was cached is a miss and goes to the adapter again;
\* clearCache leaves requests, cacheHits, cacheMisses, errors and the pinned
\* backend as they were.
C36_ClearCacheEmpties ==
  [][ /\ RemovesLiveEntry =>
           /\ Entries' = {}
           /\ \A f \in Counters : metrics'[f] = metrics[f]
           /\ authMethod' = authMethod
      /\ \A p \in Procs :
           StartsUncached(p) =>
             /\ calls'[p].dMisses = 1 /\ calls'[p].dHits = 0
             /\ calls'[p].attempt = 1
             /\ calls'[p].adapter \in {"api", "sdk", "cli"} => calls'[p].nCalls = 1 ]_vars

\* an answer was stored and the cache cleared before the entry could expire;
\* the next request has missed and is with the adapter
C36_Witness ==
  \E p \in Procs :
    /\ options.cacheEnabled /\ now = 0 /\ Entries = {}
    /\ metrics.answered = 1 /\ metrics.cacheMisses = 2 /\ metrics.requests = 2
    /\ calls[p].pc = "calling" /\ calls[p].dMisses = 1 /\ calls[p].nCalls = 1
====
